---- MODULE Spec2Model ----
(***************************************************************************)
(* Verification model of datumaro/components/project.py: the pipeline      *)
(* graph (Pipeline), the pipeline executor (ProjectBuilder) and the        *)
(* per-tree registries (ProjectSources, ProjectBuildTargets).              *)
(*                                                                         *)
(* Modelling conventions.                                                  *)
(*  - The graph library object behind Pipeline._graph is modelled by the   *)
(*    contract its call sites rely on: predecessors(n) / successors(n) are *)
(*    the parent / child collections of n, len(pipeline) is the number of  *)
(*    nodes and graph[name] is the node stored under name (KeyError when   *)
(*    there is none).                                                      *)
(*  - Datasets are abstracted to the way they were produced: "none",       *)
(*    "cache" (loaded by _load_cached_dataset), "built" (made by a source  *)
(*    plugin or by joining the parents).                                   *)
(*  - An exception that leaves a handler is recorded in err / result.      *)
(***************************************************************************)
EXTENDS Integers, Sequences, FiniteSets, TLC

VARIABLES
    \* ---- Pipeline / ProjectBuilder ----
    full,             \* the pipeline graph before slicing: [nodes, edges]
    pl,               \* Pipeline._graph: [nodes, edges]
    kind,             \* node -> "src" | "gen" | "join" (config.type / is_generated)
    cached,           \* nodes whose config.hash is set and is_obj_cached(hash)
    nameOk,           \* head['config'].name equals the key of the head node
    sliceTarget,      \* argument of the last get_slice, 0 when none
    op,               \* the entry point called: "" | "Pipeline" | "make_dataset"
    pc,               \* "start" | "fms" | "exec" | "done" | "failed"
    err,              \* the exception that ended the run, "" when none
    head,             \* local `head` of _init_pipeline / find_missing_sources
    missing_deps,     \* find_missing_sources: stack
    checked_deps,     \* find_missing_sources: set
    missing_sources,  \* find_missing_sources: result set
    to_visit,         \* _init_pipeline: stack
    dataset,          \* node -> "none" | "cache" | "built"   (node['dataset'])
    use_count,        \* node -> Nat                           (node['_use_count'])
    inited,           \* history: nodes whose dataset has ever been assigned
    joined,           \* history: nodes whose dataset was computed from their parents
    lastAssigned      \* history: node assigned by the last executor step, 0 when none

plVars == <<full, pl, kind, cached, nameOk, sliceTarget, op, pc, err, head,
            missing_deps, checked_deps, missing_sources, to_visit, dataset,
            use_count, inited, joined, lastAssigned>>

VARIABLES
    \* ---- Tree: registries over the tree config ----
    writeable,        \* vcs.writeable: the tree is the working tree of a project
    position,         \* "detached" | "working" | "index" | "revision" (Tree._parent, Tree._rev)
    project,          \* the Project behind the tree: refs, caches, index, revisions
    sources,          \* config.sources: name -> [url, remote]
    remotes,          \* config.remotes: name -> [url, type]
    dvc_remotes,      \* remotes known to the backend (dvc remote list)
    build_targets,    \* config.build_targets: name -> [stages, parents]
    last              \* the last registry call and its outcome

treeVars == <<writeable, position, project, sources, remotes, dvc_remotes,
              build_targets, last>>

vars == <<plVars, treeVars>>

-----------------------------------------------------------------------------
\* Bounds

MaxNodes == 3

-----------------------------------------------------------------------------
\* Graph helpers (the DiGraph contract used by the call sites)

Predecessors(g, n) == { p \in g.nodes : <<p, n>> \in g.edges }

Successors(g, n) == { c \in g.nodes : <<n, c>> \in g.edges }

OutDegree(g, n) == Cardinality(Successors(g, n))

Last(s) == s[Len(s)]

Front(s) == SubSeq(s, 1, Len(s) - 1)

\* all enumeration orders of a finite set
Orders(S) == { s \in [1..Cardinality(S) -> S] :
                 \A i, j \in 1..Cardinality(S) : i # j => s[i] # s[j] }

EmptyGraph == [nodes |-> {}, edges |-> {}]

-----------------------------------------------------------------------------
\* Pipeline

\* iteration order of graph.nodes for the integer-named pipelines
RECURSIVE NodeOrder(_)
NodeOrder(S) ==
    IF S = {} THEN <<>>
    ELSE LET m == CHOOSE x \in S : \A y \in S : x <= y
         IN <<m>> \o NodeOrder(S \ {m})

\* Pipeline._find_head_node: the loop over graph.nodes
RECURSIVE FindHeadLoop(_, _, _, _)
FindHeadLoop(g, order, i, h) ==
    IF i > Len(order) THEN [err |-> "", head |-> h, names |-> <<>>]
    ELSE IF OutDegree(g, order[i]) = 0
         THEN IF h # <<>>
              THEN [err |-> "MultiplePipelineHeadsError", head |-> <<>>,
                    names |-> <<h[1], order[i]>>]
              ELSE FindHeadLoop(g, order, i + 1, <<order[i]>>)
         ELSE FindHeadLoop(g, order, i + 1, h)

\* head is <<>> for None, <<n>> for node n
FindHeadNode(g, order) == FindHeadLoop(g, order, 1, <<>>)

\* Pipeline.head: self._graph[self._find_head_node(self._graph)]
PipelineHead(g, order) ==
    LET r == FindHeadNode(g, order)
    IN IF r.err # "" THEN r
       ELSE IF r.head = <<>>
            THEN [err |-> "KeyError", head |-> <<>>, names |-> <<>>]
            ELSE r

\* Pipeline._get_subgraph: the while loop; set.pop() takes an arbitrary element
RECURSIVE SubgraphLoop(_, _, _, _)
SubgraphLoop(g, visit, visited, target_parents) ==
    IF visit = {} THEN target_parents
    ELSE LET current == CHOOSE x \in visit : TRUE
             preds == Predecessors(g, current)
             visited2 == visited \cup {current}
         IN SubgraphLoop(g, (visit \ {current}) \cup (preds \ visited2),
                         visited2, target_parents \cup preds)

InducedSubgraph(g, S) ==
    [nodes |-> g.nodes \cap S,
     edges |-> { e \in g.edges : e[1] \in S /\ e[2] \in S }]

\* variant: only the direct parents of the target are collected
GetSubgraph_DirectOnly(g, target) ==
    InducedSubgraph(g, Predecessors(g, target) \cup {target})

GetSubgraph(g, target) ==
    InducedSubgraph(g, SubgraphLoop(g, {target}, {}, {}) \cup {target})

\* the methods class Pipeline defines; any other attribute goes to __getattr__
PipelineMethods == {"_create_graph", "__init__", "__getattr__", "_find_head_node",
                    "head", "_serialize", "_get_subgraph", "get_slice"}

\* Pipeline.__init__(config): result of the constructor call.
\* self._create_craph is looked up before self._graph is assigned, so
\* __getattr__ re-enters itself on self._graph until the recursion limit.
PipelineInit(g, order, method) ==
    IF method \notin PipelineMethods
    THEN [err |-> "RecursionError", head |-> <<>>, names |-> <<>>]
    ELSE PipelineHead(g, order)

-----------------------------------------------------------------------------
\* ProjectBuilder

\* the pipelines handed to the builder: nodes 1..n, every edge from a lower to
\* a higher number; a node with parents is never of type source
PipelineGraphs ==
    UNION { { [nodes |-> 1..n, edges |-> E] :
                E \in SUBSET { e \in (1..n) \X (1..n) : e[1] < e[2] } } :
            n \in 0..MaxNodes }

KindsOf(g) ==
    { k \in [g.nodes -> {"src", "gen", "join"}] :
        \A n \in g.nodes : Predecessors(g, n) # {} => k[n] = "join" }

InitPipelineState ==
    /\ full \in PipelineGraphs
    /\ pl = full
    /\ kind \in KindsOf(full)
    /\ cached \in SUBSET full.nodes
    /\ nameOk \in BOOLEAN
    /\ sliceTarget = 0
    /\ op = ""
    /\ pc = "start"
    /\ err = ""
    /\ head = 0
    /\ missing_deps = <<>>
    /\ checked_deps = {}
    /\ missing_sources = {}
    /\ to_visit = <<>>
    /\ dataset = [n \in full.nodes |-> "none"]
    /\ use_count = [n \in full.nodes |-> 0]
    /\ inited = {}
    /\ joined = {}
    /\ lastAssigned = 0

Fail(e) ==
    /\ pc' = "failed"
    /\ err' = e

\* Pipeline.get_slice(target)
GetSlice(target) ==
    /\ pc = "start"
    /\ sliceTarget = 0
    /\ target \in pl.nodes
    /\ pl' = GetSubgraph(pl, target)
    /\ sliceTarget' = target
    /\ UNCHANGED <<full, kind, cached, nameOk, op, pc, err, head, missing_deps,
                   checked_deps, missing_sources, to_visit, dataset, use_count,
                   inited, joined, lastAssigned>>

\* Pipeline(config) for the serialized form of the current graph
PipelineFromConfig ==
    /\ pc = "start"
    /\ op' = "Pipeline"
    /\ LET r == PipelineInit(pl, NodeOrder(pl.nodes), "_create_craph")
       IN /\ pc' = IF r.err = "" THEN "constructed" ELSE "failed"
          /\ err' = r.err
          /\ head' = IF r.err = "" THEN r.head[1] ELSE 0
    /\ UNCHANGED <<full, pl, kind, cached, nameOk, sliceTarget, missing_deps,
                   checked_deps, missing_sources, to_visit, dataset, use_count,
                   inited, joined, lastAssigned>>

\* head['config'].name: the stage's own name, 0 when it is not a node key
HeadConfigName(h) == IF nameOk THEN h ELSE 0

\* _run_pipeline -> find_missing_sources, up to the first loop iteration
RunPipeline ==
    /\ pc = "start"
    /\ op' = "make_dataset"
    /\ LET r == PipelineHead(pl, NodeOrder(pl.nodes))
       IN IF r.err # ""
          THEN /\ Fail(r.err)
               /\ UNCHANGED <<head, missing_deps>>
          ELSE /\ pc' = "fms"
               /\ err' = ""
               /\ head' = HeadConfigName(r.head[1])
               /\ missing_deps' = <<HeadConfigName(r.head[1])>>
    /\ UNCHANGED <<full, pl, kind, cached, nameOk, sliceTarget, checked_deps,
                   missing_sources, to_visit, dataset, use_count, inited,
                   joined, lastAssigned>>

\* find_missing_sources: one iteration of `while missing_deps`
FindMissingStep ==
    /\ pc = "fms"
    /\ missing_deps # <<>>
    /\ LET t == Last(missing_deps)
           rest == Front(missing_deps)
           parent_targets == Predecessors(pl, t)
       IN IF t \in checked_deps
          THEN /\ missing_deps' = rest
               /\ UNCHANGED <<pc, err, checked_deps, missing_sources>>
          ELSE IF t \notin pl.nodes
          THEN /\ Fail("KeyError")
               /\ missing_deps' = rest
               /\ UNCHANGED <<checked_deps, missing_sources>>
          ELSE IF t \in cached
          THEN /\ missing_deps' = rest
               /\ checked_deps' = checked_deps \cup {t}
               /\ UNCHANGED <<pc, err, missing_sources>>
          ELSE IF parent_targets = {}
          THEN IF kind[t] = "join"
               THEN /\ Fail("AssertionError")
                    /\ missing_deps' = rest
                    /\ UNCHANGED <<checked_deps, missing_sources>>
               ELSE /\ missing_sources' =
                          IF kind[t] = "src" THEN missing_sources \cup {t}
                          ELSE missing_sources
                    /\ missing_deps' = rest
                    /\ checked_deps' = checked_deps \cup {t}
                    /\ UNCHANGED <<pc, err>>
          ELSE /\ \E o \in Orders(parent_targets \ checked_deps) :
                      missing_deps' = rest \o o
               /\ UNCHANGED <<pc, err, checked_deps, missing_sources>>
    /\ UNCHANGED <<full, pl, kind, cached, nameOk, sliceTarget, op, head, to_visit,
                   dataset, use_count, inited, joined, lastAssigned>>

\* _run_pipeline after find_missing_sources returned: download_source for the
\* missing sources, then _init_pipeline up to the first loop iteration
StartInitPipeline ==
    /\ pc = "fms"
    /\ missing_deps = <<>>
    /\ IF missing_sources # {}
       THEN /\ Fail("NotImplementedError")
            /\ UNCHANGED <<head, to_visit>>
       ELSE IF Cardinality(pl.nodes) = 0
       THEN /\ Fail("EmptyPipelineError")
            /\ UNCHANGED <<head, to_visit>>
       ELSE LET r == PipelineHead(pl, NodeOrder(pl.nodes))
            IN IF r.err # ""
               THEN /\ Fail(r.err)
                    /\ UNCHANGED <<head, to_visit>>
               ELSE /\ pc' = "exec"
                    /\ err' = ""
                    /\ head' = HeadConfigName(r.head[1])
                    /\ to_visit' = <<HeadConfigName(r.head[1])>>
    /\ UNCHANGED <<full, pl, kind, cached, nameOk, sliceTarget, op, missing_deps,
                   checked_deps, missing_sources, dataset, use_count, inited,
                   joined, lastAssigned>>

\* variant: no parent is ever reported as uninitialized
UninitializedParents_NoCheck(ds, parents) == {}

\* _init_pipeline: the parents of `current` that hold no dataset
UninitializedParents(ds, parents) == { p \in parents : ds[p] = "none" }

\* variant: a parent is released after its first use
IsFullyUtilized_FirstUse(g, hd, p, count) == p # hd /\ count >= 1

\* _join_parent_datasets: `p_name != head and p['_use_count'] == len(successors)`
IsFullyUtilized(g, hd, p, count) == p # hd /\ count = OutDegree(g, p)

\* _join_parent_datasets: the bookkeeping loop over the joined parents
JoinUseCount(uc, parents) ==
    [n \in DOMAIN uc |-> IF n \in parents THEN uc[n] + 1 ELSE uc[n]]

JoinRelease(g, hd, ds, uc, parents) ==
    [n \in DOMAIN ds |->
        IF n \in parents /\ IsFullyUtilized(g, hd, n, JoinUseCount(uc, parents)[n])
        THEN "none" ELSE ds[n]]

\* _init_pipeline: one iteration of `while to_visit`
InitPipelineStep ==
    /\ pc = "exec"
    /\ to_visit # <<>>
    /\ LET current_name == Last(to_visit)
           rest == Front(to_visit)
           parent_targets == Predecessors(pl, current_name)
           uninitialized_parents == UninitializedParents(dataset, parent_targets)
           initialized_parents == parent_targets \ uninitialized_parents
           released == JoinRelease(pl, head, dataset, use_count, initialized_parents)
       IN IF dataset[current_name] # "none"
          THEN /\ Fail("AssertionError")
               /\ to_visit' = rest
               /\ lastAssigned' = 0
               /\ UNCHANGED <<dataset, use_count, inited, joined>>
          ELSE IF current_name \in cached
          THEN /\ dataset' = [dataset EXCEPT ![current_name] = "cache"]
               /\ inited' = inited \cup {current_name}
               /\ to_visit' = rest
               /\ lastAssigned' = current_name
               /\ UNCHANGED <<pc, err, use_count, joined>>
          ELSE IF parent_targets = {} /\ kind[current_name] = "join"
          THEN /\ Fail("AssertionError")
               /\ to_visit' = rest
               /\ lastAssigned' = 0
               /\ UNCHANGED <<dataset, use_count, inited, joined>>
          ELSE IF parent_targets = {} /\ kind[current_name] = "src"
          THEN /\ Fail("MissingObjectError")
               /\ to_visit' = rest
               /\ lastAssigned' = 0
               /\ UNCHANGED <<dataset, use_count, inited, joined>>
          ELSE IF uninitialized_parents # {}
          THEN /\ \E o \in Orders(uninitialized_parents) :
                      to_visit' = (rest \o <<current_name>>) \o o
               /\ lastAssigned' = 0
               /\ UNCHANGED <<pc, err, dataset, use_count, inited, joined>>
          ELSE IF kind[current_name] = "join"
          THEN /\ dataset' = [released EXCEPT ![current_name] = "built"]
               /\ use_count' = JoinUseCount(use_count, initialized_parents)
               /\ inited' = inited \cup {current_name}
               /\ joined' = joined \cup {current_name}
               /\ to_visit' = rest
               /\ lastAssigned' = current_name
               /\ UNCHANGED <<pc, err>>
          ELSE /\ dataset' = [dataset EXCEPT ![current_name] = "built"]
               /\ inited' = inited \cup {current_name}
               /\ to_visit' = rest
               /\ lastAssigned' = current_name
               /\ UNCHANGED <<pc, err, use_count, joined>>
    /\ UNCHANGED <<full, pl, kind, cached, nameOk, sliceTarget, op, head,
                   missing_deps, checked_deps, missing_sources>>

\* _init_pipeline: the loop ends, `return graph, head`
InitPipelineDone ==
    /\ pc = "exec"
    /\ to_visit = <<>>
    /\ pc' = "done"
    /\ lastAssigned' = 0
    /\ UNCHANGED <<full, pl, kind, cached, nameOk, sliceTarget, op, err, head,
                   missing_deps, checked_deps, missing_sources, to_visit,
                   dataset, use_count, inited, joined>>


-----------------------------------------------------------------------------
\* Properties of the pipeline executor and of Pipeline

\* transitive predecessors of n
RECURSIVE AncestorClosure(_, _)
AncestorClosure(g, S) ==
    LET S2 == S \cup { p \in g.nodes : \E n \in S : <<p, n>> \in g.edges }
    IN IF S2 = S THEN S ELSE AncestorClosure(g, S2)

Ancestors(g, n) == AncestorClosure(g, Predecessors(g, n))

Sinks(g) == { n \in g.nodes : \A m \in g.nodes : <<n, m>> \notin g.edges }

Finished == pc \in {"done", "failed"}

\* C1 as stated: at the moment a stage's dataset is assigned, every parent of
\* the stage holds a non-null dataset.
C1_AsStated ==
    lastAssigned # 0 =>
        \A p \in Predecessors(pl, lastAssigned) : dataset[p] # "none"

\* C1 amended: at the moment the dataset of a stage that is not loaded from the
\* cache is assigned, every parent of the stage has been assigned a dataset
\* before, and a parent whose slot is empty again is one the join has released
\* (its use count has reached its out-degree).
C1_ParentsInitializedFirst ==
    (lastAssigned # 0 /\ lastAssigned \notin cached) =>
        \A p \in Predecessors(pl, lastAssigned) :
            /\ p \in inited
            /\ dataset[p] = "none" =>
                   (p # head /\ use_count[p] = OutDegree(pl, p))

\* C1 witness: a stage with two parents has just been computed from them, one
\* parent still holds its dataset and the other has been released.
C1_Witness ==
    /\ lastAssigned # 0
    /\ lastAssigned \in joined
    /\ \E p, q \in Predecessors(pl, lastAssigned) :
          dataset[p] = "none" /\ dataset[q] # "none"

\* C2 as stated: after execution every non-head node that is a parent of some
\* node (out-degree >= 1) has an empty dataset slot, and no other does.
C2_AsStated ==
    pc = "done" =>
        \A p \in pl.nodes \ {head} :
            (dataset[p] = "none") <=> (OutDegree(pl, p) >= 1)

\* C2 amended: after execution the dataset of a node has been released iff the
\* node is not the head and every child of it was computed by joining its
\* parents; a parent with a child that was loaded from the cache (or never
\* initialized) keeps its dataset, and the head keeps its dataset.
C2_ReleasedIffAllChildrenJoined ==
    pc = "done" =>
        /\ dataset[head] # "none"
        /\ \A p \in pl.nodes :
              (p \in inited /\ dataset[p] = "none") <=>
                  (p # head /\ OutDegree(pl, p) >= 1 /\ Successors(pl, p) \subseteq joined)

\* C2 witness: an execution has ended with one parent released and another
\* parent, one of whose children was loaded from the cache, still holding its
\* dataset.
C2_Witness ==
    /\ pc = "done"
    /\ \E p, q \in pl.nodes \ {head} :
          /\ p \in inited /\ dataset[p] = "none"
          /\ q \in inited /\ dataset[q] # "none"
          /\ \E c \in Successors(pl, q) : c \in inited /\ c \notin joined

\* C5: get_slice(target) is the subgraph induced by target and exactly its
\* transitive predecessors, and target is the only node of the slice without
\* successors.
C5_SliceIsAncestors ==
    sliceTarget # 0 =>
        /\ pl = InducedSubgraph(full, Ancestors(full, sliceTarget) \cup {sliceTarget})
        /\ Sinks(pl) = {sliceTarget}

\* C5 witness: a slice that holds an ancestor of the target that is not one of
\* its direct parents.
C5_Witness ==
    /\ sliceTarget # 0
    /\ \E a \in pl.nodes :
          a # sliceTarget /\ <<a, sliceTarget>> \notin full.edges

\* C6: constructing a Pipeline from a config with two or more terminal nodes
\* fails with MultiplePipelineHeadsError.
C6_MultipleHeadsError ==
    (op = "Pipeline" /\ Cardinality(Sinks(pl)) >= 2) =>
        (pc = "failed" /\ err = "MultiplePipelineHeadsError")

\* C7: executing a pipeline with zero nodes fails with EmptyPipelineError.
C7_EmptyPipelineError ==
    (op = "make_dataset" /\ Finished /\ pl.nodes = {}) =>
        (pc = "failed" /\ err = "EmptyPipelineError")

\* nodes reachable from the head over reverse edges without passing a cached node
RECURSIVE UncachedClosure(_, _)
UncachedClosure(g, S) ==
    LET S2 == S \cup { p \in g.nodes \ cached :
                         \E n \in S : <<p, n>> \in g.edges }
    IN IF S2 = S THEN S ELSE UncachedClosure(g, S2)

NeededMissingSources ==
    IF Cardinality(Sinks(pl)) # 1 THEN {}
    ELSE { s \in UncachedClosure(pl, Sinks(pl) \ cached) :
             Predecessors(pl, s) = {} /\ kind[s] = "src" }

\* C8: executing a pipeline that needs a non-generated source which is not in
\* the cache fails with MissingObjectError.
C8_MissingObjectError ==
    (op = "make_dataset" /\ Finished /\ nameOk /\ NeededMissingSources # {}) =>
        (pc = "failed" /\ err = "MissingObjectError")

-----------------------------------------------------------------------------
\* Tree configuration: names, stages, mappings

MaxStages == 2       \* added (non-root) stages in the whole tree

SourceNames == {"a", "b"}

MAIN_TARGET == "project"

\* a stage name "<stem>" (num = -1) or "<stem>-<num>"
StageName(stem, num) == [stem |-> stem, num |-> num]

BASE_STAGE == StageName("root", -1)

BuildStage(name, type) == [name |-> name, type |-> type]

\* the positions of a Tree; only the working tree is writeable
TreePositions == {"detached", "working", "index", "revision"}

\* a tree looked at without its project
NoProject == <<>>

\* ret: what the call returned, <<>> when nothing is recorded
NoLast == [op |-> "", name |-> "", err |-> "", ret |-> <<>>]

\* Config.set(key, value) and Config.remove(key) on a mapping
MapSet(f, k, v) == [x \in DOMAIN f \cup {k} |-> IF x = k THEN v ELSE f[x]]

MapRemove(f, k) == [x \in DOMAIN f \ {k} |-> f[x]]

EmptyMap == [x \in {} |-> 0]

\* BuildTarget.head: the last stage of the chain
TargetHead(target) == target.stages[Len(target.stages)]

\* BuildTarget.find_stage(name): <<>> for None
FindStage(target, name) ==
    IF \E i \in 1..Len(target.stages) : target.stages[i].name = name
    THEN <<target.stages[CHOOSE i \in 1..Len(target.stages) :
                            target.stages[i].name = name]>>
    ELSE <<>>

\* ProjectBuildTargets._data: the getter fills in the main target and one
\* target per source before handing out config.build_targets
BuildTargetsData(data, srcs) ==
    [t \in DOMAIN data \cup {MAIN_TARGET} \cup DOMAIN srcs |->
        IF t \in DOMAIN data THEN data[t]
        ELSE IF t = MAIN_TARGET
        THEN [stages |-> <<BuildStage(BASE_STAGE, "project")>>, parents |-> {}]
        ELSE [stages |-> <<BuildStage(BASE_STAGE, "source")>>, parents |-> {}]]

\* ProjectBuildTargets.add_target(name)
AddTarget(data, srcs, name) ==
    MapSet(BuildTargetsData(data, srcs), name,
           [stages |-> <<BuildStage(BASE_STAGE, "source")>>, parents |-> {}])

\* variant: the target of a removed source is left in place
RemoveTarget_Keep(data, srcs, name) == BuildTargetsData(data, srcs)

\* ProjectBuildTargets.remove_target(name), once the assertion has passed
RemoveTarget(data, srcs, name) == MapRemove(BuildTargetsData(data, srcs), name)

-----------------------------------------------------------------------------
\* ProjectRemotes and ProjectSources

Url(text, scheme, netloc, path, exists) ==
    [text |-> text, scheme |-> scheme, netloc |-> netloc, path |-> path,
     exists |-> exists]

\* urllib.parse.urlsplit / osp.exists of the URLs the operations are tried with
UrlEmpty == Url("", "", "", "", FALSE)

UrlLocal == Url("./data", "", "", "./data", TRUE)

UrlMissing == Url("./missing", "", "", "./missing", FALSE)

UrlHttp == Url("http://h/data", "http", "h", "/data", FALSE)

UrlFtp == Url("ftp://h/data", "ftp", "h", "/data", FALSE)

UrlGit == Url("git://h/repo", "git", "h", "/repo", FALSE)

UrlDvc == Url("dvc://h/repo", "dvc", "h", "/repo", FALSE)

\* an existing local path that urlsplit reads as having a scheme (a drive letter)
UrlDrive == Url("c:/data", "c", "", "/data", TRUE)

UrlRemote(r) == Url("remote://r/data", "remote", r, "/data", FALSE)

UrlRemoteRoot(r) == Url("remote://r/", "remote", r, "/", FALSE)

RemoteNames == SourceNames \cup {"r"}

SUPPORTED_PROTOCOLS == {"", "remote", "s3", "ssh", "http", "https"}

\* osp.basename of the paths above
Basename(path) ==
    CASE path = "/data" -> "data"
      [] path = "./data" -> "data"
      [] path = "/repo" -> "repo"
      [] path = "./missing" -> "missing"
      [] OTHER -> ""

\* variant: every url is accepted
ValidateUrl_Accept(url) == ""

\* ProjectRemotes.validate_url: the exception raised, "" when none
ValidateUrl(url) ==
    IF url.scheme \notin SUPPORTED_PROTOCOLS /\ ~url.exists THEN "ValueError"
    ELSE IF url.netloc = "" /\ url.path = "" THEN "ValueError"
    ELSE ""

\* ProjectRemotes.add(name, value); addOk: the backend accepts `remote add`
RemotesAddCall(rem, dvc, name, url, type, addOk) ==
    IF ValidateUrl(url) # ""
    THEN [err |-> ValidateUrl(url), remotes |-> rem, dvc_remotes |-> dvc]
    ELSE LET value == [url |-> url.text, abspath |-> (url.scheme = ""),
                       type |-> IF type = "" THEN "url" ELSE type]
             rem2 == MapSet(rem, name, value)
         IN IF value.type \notin {"url", "git", "dvc"}
            THEN [err |-> "AssertionError", remotes |-> rem2, dvc_remotes |-> dvc]
            ELSE IF ~addOk
            THEN [err |-> "DvcError", remotes |-> rem2, dvc_remotes |-> dvc]
            ELSE [err |-> "", remotes |-> rem2, dvc_remotes |-> dvc \cup {name}]

\* ProjectRemotes.remove(name, force); the backend fails when it does not know
\* the remote or when removeOk is false
RemotesRemoveCall(rem, dvc, name, force, removeOk) ==
    IF removeOk /\ name \in dvc
    THEN [err |-> "", remotes |-> rem, dvc_remotes |-> dvc \ {name}]
    ELSE [err |-> IF force THEN "" ELSE "DvcError",
          remotes |-> rem, dvc_remotes |-> dvc]

\* make_file_name(name) == name, for the names the operations are tried with
IsFileName(name) == name \in {"a", "b", "project", "dataset"}

TriedNames == SourceNames \cup {"project", "Bad"}

\* ProjectSources.validate_name: the exception raised, "" when none
ValidateName(name) ==
    IF ~IsFileName(name) THEN "ValueError"
    ELSE IF name \in {"dataset", "build", "project"} THEN "ValueError"
    ELSE ""

\* variant: every url is taken for a local one
IsLocalOrGenerated_Any(url) == TRUE

\* `not url or osp.exists(url)`: a generated source or an existing local path
IsLocalOrGenerated(url) == url.text = "" \/ url.exists

\* variant: a name that is present is not noticed
NameTaken_Never(srcs, name) == FALSE

\* `name in self` of _DataSourceBase.add
NameTaken(srcs, name) == name \in DOMAIN srcs

\* _DataSourceBase.add(name, value): [err, at, sources, remotes, dvc_remotes];
\* at names the backend call that raised ("" when none did).
\* On an exception the rollback actions registered so far have run.
DataSourceAdd(srcs, rem, dvc, wr, name, url, addOk, importOk) ==
    LET unchanged == [sources |-> srcs, remotes |-> rem, dvc_remotes |-> dvc]
        failed(e) == [err |-> e, at |-> ""] @@ unchanged
        stored(path, remote_name, rem2, dvc2) ==
            [err |-> "", at |-> "",
             sources |-> MapSet(srcs, name, [url |-> path, remote |-> remote_name]),
             remotes |-> rem2, dvc_remotes |-> dvc2]
    IN IF ValidateName(name) # "" THEN failed(ValidateName(name))
       ELSE IF NameTaken(srcs, name) THEN failed("SourceExistsError")
       ELSE IF ~wr
       THEN IF IsLocalOrGenerated(url)
            THEN stored(url.text, "", rem, dvc)
            ELSE failed("DetachedProjectError")
       ELSE IF url.text = "" THEN stored("", "", rem, dvc)
       ELSE IF ValidateUrl(url) # "" THEN failed(ValidateUrl(url))
       ELSE IF url.scheme = "remote"
       THEN IF url.netloc \notin DOMAIN rem THEN failed("KeyError")
            ELSE IF rem[url.netloc].type \notin {"url", "git", "dvc"}
            THEN failed("ValueError")
            ELSE IF ~importOk THEN [failed("DvcError") EXCEPT !.at = "import"]
            ELSE stored(Basename(IF url.path = "/" THEN "" ELSE url.path),
                        url.netloc, rem, dvc)
       ELSE IF url.scheme = "" /\ ~url.exists THEN failed("FileNotFoundError")
       ELSE LET rollback == name \notin DOMAIN rem
                added == RemotesAddCall(rem, dvc, name, url, "url", addOk)
                undone(dvc2) == IF rollback THEN dvc2 \ {name} ELSE dvc2
            IN IF added.err # ""
               THEN [err |-> added.err, at |-> "add_remote", sources |-> srcs,
                     remotes |-> added.remotes,
                     dvc_remotes |-> undone(added.dvc_remotes)]
               ELSE IF ~importOk
               THEN [err |-> "DvcError", at |-> "import", sources |-> srcs,
                     remotes |-> added.remotes,
                     dvc_remotes |-> undone(added.dvc_remotes)]
               ELSE stored(Basename(""), name, added.remotes, added.dvc_remotes)

\* ProjectSources.add(name, {url}): _DataSourceBase.add, then add_target
SourcesAdd(name, url, addOk, importOk) ==
    LET r == DataSourceAdd(sources, remotes, dvc_remotes, writeable, name, url,
                           addOk, importOk)
    IN /\ sources' = r.sources
       /\ remotes' = r.remotes
       /\ dvc_remotes' = r.dvc_remotes
       /\ build_targets' = IF r.err = ""
                           THEN AddTarget(build_targets, r.sources, name)
                           ELSE build_targets
       /\ last' = [op |-> "sources.add", name |-> name, err |-> r.err,
                   ret |-> IF r.at = "" THEN <<>> ELSE <<r.at>>]
       /\ UNCHANGED <<writeable, position, project, position, project>>

\* variant: a name that is not registered is removed like any other
IsUnknownSource_Never(srcs, name, force) == FALSE

\* _DataSourceBase.remove: `name not in self._data and not force`
IsUnknownSource(srcs, name, force) == name \notin DOMAIN srcs /\ ~force

\* _DataSourceBase.remove(name, force, keep_data): [err, sources, dvc_remotes];
\* dvcOk: the backend removes the stage file, removeOk: it removes the remote
DataSourceRemove(srcs, rem, dvc, wr, name, force, dvcOk, removeOk) ==
    IF IsUnknownSource(srcs, name, force)
    THEN [err |-> "KeyError", sources |-> srcs, dvc_remotes |-> dvc]
    ELSE LET srcs2 == MapRemove(srcs, name)
             has_dvcfile == name \in DOMAIN srcs /\ srcs[name].remote # ""
             removed == RemotesRemoveCall(rem, dvc, name, force, removeOk)
         IN IF ~wr
            THEN [err |-> "", sources |-> srcs2, dvc_remotes |-> dvc]
            ELSE IF has_dvcfile /\ ~dvcOk /\ ~force
            THEN [err |-> "DvcError", sources |-> srcs2, dvc_remotes |-> dvc]
            ELSE [err |-> removed.err, sources |-> srcs2,
                  dvc_remotes |-> removed.dvc_remotes]

\* ProjectSources.remove(name, force): remove_target, then _DataSourceBase.remove
SourcesRemove(name, force, dvcOk, removeOk) ==
    IF name = MAIN_TARGET
    THEN /\ last' = [op |-> "sources.remove", name |-> name,
                     err |-> "AssertionError", ret |-> <<>>]
         /\ UNCHANGED <<writeable, position, project, sources, remotes, dvc_remotes,
                        build_targets>>
    ELSE LET r == DataSourceRemove(sources, remotes, dvc_remotes, writeable,
                                   name, force, dvcOk, removeOk)
         IN /\ build_targets' = RemoveTarget(build_targets, sources, name)
            /\ sources' = r.sources
            /\ dvc_remotes' = r.dvc_remotes
            /\ last' = [op |-> "sources.remove", name |-> name, err |-> r.err,
                        ret |-> <<force>>]
            /\ UNCHANGED <<writeable, position, project, remotes>>

\* ProjectRemotes.add(name, {url})
RemotesAdd(name, url, addOk) ==
    LET r == RemotesAddCall(remotes, dvc_remotes, name, url, "", addOk)
    IN /\ remotes' = r.remotes
       /\ dvc_remotes' = r.dvc_remotes
       /\ last' = [op |-> "remotes.add", name |-> name, err |-> r.err,
                   ret |-> <<url.text>>]
       /\ UNCHANGED <<writeable, position, project, sources, build_targets>>

\* ProjectRemotes.remove(name, force)
RemotesRemove(name, force, removeOk) ==
    LET r == RemotesRemoveCall(remotes, dvc_remotes, name, force, removeOk)
    IN /\ remotes' = r.remotes
       /\ dvc_remotes' = r.dvc_remotes
       /\ last' = [op |-> "remotes.remove", name |-> name, err |-> r.err, ret |-> <<>>]
       /\ UNCHANGED <<writeable, position, project, sources, build_targets>>

-----------------------------------------------------------------------------
\* ProjectBuildTargets: stage chains and pipeline assembly

\* a target name as passed by a caller: "<target>" (stage = NoStage) or
\* "<target>.<stage>"
NoStage == StageName("", -1)

TargetName(target, stage) == [target |-> target, stage |-> stage]

\* find(enumerate(stages), lambda e: e[1].name == name): <<>> for None,
\* otherwise <<e>> with e the pair (0-based index, stage)
FindEnumerated(stages, name) ==
    IF \E i \in 1..Len(stages) : stages[i].name = name
    THEN LET i == CHOOSE i \in 1..Len(stages) :
                    /\ stages[i].name = name
                    /\ \A j \in 1..(i - 1) : stages[j].name # name
         IN <<[index |-> i - 1, item |-> stages[i]]>>
    ELSE <<>>

\* re.match of generate_next_name's pattern  basename(?:-(\d+))?  on a stage
\* name: the pattern is not anchored at the end, so a longer stem matches too
PatternMatches(name, basename) ==
    \/ name.stem = basename
    \/ name.stem = "transformed" /\ basename = "transform"

\* variant: the number of a matching name is not read
MatchIndex_Zero(name, basename) == 0

\* cast(match[1], int, 0)
MatchIndex(name, basename) ==
    IF name.stem = basename /\ name.num >= 0 THEN name.num ELSE 0

SetMax(S) == CHOOSE m \in S : \A x \in S : x <= m

\* generate_next_name(names, basename, sep='-')
GenerateNextName(names, basename) ==
    LET matches == { n \in names : PatternMatches(n, basename) }
    IN IF matches = {} THEN StageName(basename, -1)
       ELSE StageName(basename,
                      SetMax({ MatchIndex(n, basename) : n \in matches }) + 1)

\* list.insert(index, value), index counted from 0
ListInsert(s, index, v) ==
    SubSeq(s, 1, index) \o <<v>> \o SubSeq(s, index + 1, Len(s))

\* list.remove(x): drops the first element equal to x, <<>> inside a tuple
\* when there is none (ValueError)
ListRemove(s, x) ==
    IF \E i \in 1..Len(s) : s[i] = x
    THEN LET i == CHOOSE i \in 1..Len(s) :
                    s[i] = x /\ \A j \in 1..(i - 1) : s[j] # x
         IN <<SubSeq(s, 1, i - 1) \o SubSeq(s, i + 1, Len(s))>>
    ELSE <<>>

StageNamesOf(stages) == { stages[i].name : i \in 1..Len(stages) }

\* variant: the new stage takes the place of the stage under the cursor
InsertPosition_AtCursor(prev_stage) == prev_stage

\* the index add_stage inserts at
InsertPosition(prev_stage) == prev_stage + 1

\* variant: the stage named in the target argument goes before prev
ResolveCursor_SuffixFirst(prev, target_stage_name) ==
    IF target_stage_name = NoStage THEN prev ELSE target_stage_name

\* add_stage, lines 766-767: `if prev is None: prev = target_stage_name`
ResolveCursor(prev, target_stage_name) ==
    IF prev = NoStage THEN target_stage_name ELSE prev

\* ProjectBuildTargets.add_stage(target, {type}, prev, name):
\* [err, data, ret]; prev and name are NoStage for None
AddStageCall(bt, srcs, target, type, prev, name) ==
    LET data == BuildTargetsData(bt, srcs)
        target_name == target.target
        prev2 == ResolveCursor(prev, target.stage)
        failed(e) == [err |-> e, data |-> data, ret |-> <<>>]
    IN IF target_name \notin DOMAIN data THEN failed("KeyError")
       ELSE
       LET tgt == data[target_name]
           found == FindEnumerated(tgt.stages, prev2)
           prev_stage == IF prev2 # NoStage THEN found[1].index
                         ELSE Len(tgt.stages) - 1
           name2 == IF name = NoStage
                    THEN GenerateNextName(StageNamesOf(tgt.stages), type)
                    ELSE name
           stages2 == ListInsert(tgt.stages, InsertPosition(prev_stage),
                                 BuildStage(name2, type))
       IN IF prev2 # NoStage /\ found = <<>> THEN failed("KeyError")
          ELSE IF name # NoStage /\ FindStage(tgt, name) # <<>>
          THEN failed("VcsError")
          ELSE [err |-> "",
                data |-> MapSet(data, target_name,
                                [tgt EXCEPT !.stages = stages2]),
                ret |-> <<TargetName(target_name, name2)>>]

\* ProjectBuildTargets.remove_stage(target, name): [err, data]
RemoveStageCall(bt, srcs, target, name) ==
    IF name = BASE_STAGE THEN [err |-> "AssertionError", data |-> bt]
    ELSE
    LET data == BuildTargetsData(bt, srcs)
    IN IF target \notin DOMAIN data THEN [err |-> "KeyError", data |-> data]
       ELSE
       LET tgt == data[target]
           idx == FindEnumerated(tgt.stages, name)
       IN IF idx = <<>> THEN [err |-> "KeyError", data |-> data]
          ELSE LET removed == ListRemove(tgt.stages, idx[1])
               IN IF removed = <<>>
                  THEN [err |-> "ValueError", data |-> data]
                  ELSE [err |-> "",
                        data |-> MapSet(data, target,
                                        [tgt EXCEPT !.stages = removed[1]])]

\* a node key of the tree's pipeline: make_target_name(target, stage)
StageNode(target, stage) == <<target, stage>>

HeadNode(data, t) == StageNode(t, TargetHead(data[t]).name)

\* the edges _make_full_pipeline adds for one target: prev_stages into the
\* first stage, then every stage into the next one
ChainEdges(t, stages, prev_stages) ==
    { <<p, StageNode(t, stages[1].name)>> : p \in prev_stages }
    \cup { <<StageNode(t, stages[i].name), StageNode(t, stages[i + 1].name)>> :
             i \in 1..(Len(stages) - 1) }

\* variant: the main target is not connected to the other targets
MainPrevStages_None(data) == {}

\* prev_stages of the main target: the head stage of every other target
MainPrevStages(data) ==
    { HeadNode(data, n) : n \in DOMAIN data \ {MAIN_TARGET} }

\* ProjectBuildTargets._make_full_pipeline: [err, graph]; self[t] raises
\* KeyError for a parent that is not a target
MakeFullPipeline(data) ==
    IF \E t \in DOMAIN data \ {MAIN_TARGET} :
          ~(data[t].parents \subseteq DOMAIN data)
    THEN [err |-> "KeyError", graph |-> EmptyGraph]
    ELSE LET prev_stages(t) ==
                 IF t = MAIN_TARGET THEN MainPrevStages(data)
                 ELSE { HeadNode(data, p) : p \in data[t].parents }
         IN [err |-> "",
             graph |->
               [nodes |-> UNION { { StageNode(t, n) :
                                      n \in StageNamesOf(data[t].stages) } :
                                  t \in DOMAIN data },
                edges |-> UNION { ChainEdges(t, data[t].stages, prev_stages(t)) :
                                  t \in DOMAIN data }]]

\* some enumeration of a node set; Pipeline.head gives the same outcome for
\* every enumeration unless there are several heads to name in the message
RECURSIVE AnyOrder(_)
AnyOrder(S) ==
    IF S = {} THEN <<>>
    ELSE LET x == CHOOSE x \in S : TRUE
         IN <<x>> \o AnyOrder(S \ {x})

\* variant: a bare target name is resolved to the target's first stage
ResolveTarget_Root(data, target) == StageNode(target.target, BASE_STAGE)

\* make_pipeline: the node a target name stands for
ResolveTarget(data, target) ==
    IF target.stage = NoStage THEN HeadNode(data, target.target)
    ELSE StageNode(target.target, target.stage)

\* ProjectBuildTargets.make_pipeline(target), and .head of the result:
\* [err, full, graph, node, head]
MakePipelineCall(data, target) ==
    LET failed(e, g) == [err |-> e, full |-> g, graph |-> EmptyGraph,
                         node |-> <<>>, head |-> <<>>]
    IN IF target.stage = NoStage /\ target.target \notin DOMAIN data
       THEN failed("KeyError", EmptyGraph)
       ELSE
       LET node == ResolveTarget(data, target)
           made == MakeFullPipeline(data)
       IN IF made.err # "" THEN failed(made.err, EmptyGraph)
          ELSE IF node \notin made.graph.nodes
          THEN failed("NetworkXError", made.graph)
          ELSE LET slice == GetSubgraph(made.graph, node)
                   h == PipelineHead(slice, AnyOrder(slice.nodes))
               IN [err |-> h.err, full |-> made.graph, graph |-> slice,
                   node |-> <<node>>, head |-> h.head]

RECURSIVE AddedStagesIn(_, _)
AddedStagesIn(data, names) ==
    IF names = {} THEN 0
    ELSE LET t == CHOOSE t \in names : TRUE
         IN (Len(data[t].stages) - 1) + AddedStagesIn(data, names \ {t})

\* the number of stages added to the root stages of the tree
AddedStages(data) == AddedStagesIn(data, DOMAIN data)

\* build_targets.add_stage(target, {type}, prev, name)
AddStage(target, type, prev, name) ==
    /\ AddedStages(build_targets) < MaxStages
    /\ LET r == AddStageCall(build_targets, sources, target, type, prev, name)
       IN /\ build_targets' = r.data
          /\ last' = [op |-> "add_stage", name |-> target.target,
                      err |-> r.err, ret |-> r.ret]
    /\ UNCHANGED <<writeable, position, project, sources, remotes, dvc_remotes>>

\* build_targets.remove_stage(target, name)
RemoveStage(target, name) ==
    /\ LET r == RemoveStageCall(build_targets, sources, target, name)
       IN /\ build_targets' = r.data
          /\ last' = [op |-> "remove_stage", name |-> target,
                      err |-> r.err, ret |-> <<name>>]
    /\ UNCHANGED <<writeable, position, project, sources, remotes, dvc_remotes>>

\* build_targets.make_pipeline(target).head
MakePipeline(target) ==
    /\ LET data == BuildTargetsData(build_targets, sources)
           r == MakePipelineCall(data, target)
       IN /\ build_targets' = data
          /\ full' = r.full
          /\ pl' = r.graph
          /\ sliceTarget' = r.node
          /\ head' = r.head
          /\ err' = r.err
          /\ pc' = IF r.err = "" THEN "constructed" ELSE "failed"
          /\ op' = "make_pipeline"
          /\ last' = [op |-> "make_pipeline", name |-> target.target,
                      err |-> r.err, ret |-> <<target>>]
    /\ UNCHANGED <<kind, cached, nameOk, missing_deps, checked_deps,
                   missing_sources, to_visit, dataset, use_count, inited,
                   joined, lastAssigned>>
    /\ UNCHANGED <<writeable, position, project, sources, remotes, dvc_remotes>>

\* _join_parent_datasets, lines 573-580: the sources a DatasetMergeError is
\* given, set(parents), the keys of the joined parent nodes
MergeErrorSources(initialized_parents) == initialized_parents

\* make_dataset on the pipeline just made: the run reaches the join of the
\* parents of `current`, all of them initialized, and from_extractors raises
\* DatasetMergeError
JoinConflict(current) ==
    /\ pc = "constructed"
    /\ op = "make_pipeline"
    /\ current \in pl.nodes
    /\ Predecessors(pl, current) # {}
    /\ pc' = "failed"
    /\ err' = "DatasetMergeError"
    /\ op' = "make_dataset"
    /\ last' = [op |-> "make_dataset", name |-> last.name,
                err |-> "DatasetMergeError",
                ret |-> <<current, MergeErrorSources(Predecessors(pl, current))>>]
    /\ UNCHANGED <<full, pl, kind, cached, nameOk, sliceTarget, head,
                   missing_deps, checked_deps, missing_sources, to_visit,
                   dataset, use_count, inited, joined, lastAssigned>>
    /\ UNCHANGED <<writeable, position, project, sources, remotes, dvc_remotes,
                   build_targets>>

\* the pipeline variables of a run that only uses the registries
PipelineIdle ==
    /\ full = EmptyGraph
    /\ pl = EmptyGraph
    /\ kind = EmptyMap
    /\ cached = {}
    /\ nameOk = TRUE
    /\ sliceTarget = 0
    /\ op = ""
    /\ pc = "idle"
    /\ err = ""
    /\ head = 0
    /\ missing_deps = <<>>
    /\ checked_deps = {}
    /\ missing_sources = {}
    /\ to_visit = <<>>
    /\ dataset = EmptyMap
    /\ use_count = EmptyMap
    /\ inited = {}
    /\ joined = {}
    /\ lastAssigned = 0

\* the registry variables of a run that only uses a pipeline
TreeIdle ==
    /\ writeable = FALSE
    /\ position = "detached"
    /\ project = NoProject
    /\ sources = EmptyMap
    /\ remotes = EmptyMap
    /\ dvc_remotes = {}
    /\ build_targets = EmptyMap
    /\ last = NoLast

NextPipeline ==
    \/ \E t \in 1..MaxNodes : GetSlice(t) /\ UNCHANGED treeVars
    \/ PipelineFromConfig /\ UNCHANGED treeVars
    \/ RunPipeline /\ UNCHANGED treeVars
    \/ FindMissingStep /\ UNCHANGED treeVars
    \/ StartInitPipeline /\ UNCHANGED treeVars
    \/ InitPipelineStep /\ UNCHANGED treeVars
    \/ InitPipelineDone /\ UNCHANGED treeVars

\* a pipeline handed to the builder, the registries left alone
InitPipeline ==
    /\ InitPipelineState
    /\ TreeIdle

SpecPipeline == InitPipeline /\ [][NextPipeline]_vars

\* a freshly created tree: the working tree of a project, or a tree that is
\* not writeable (detached, or attached to a revision)
InitSources ==
    /\ PipelineIdle
    /\ position \in TreePositions
    /\ writeable = (position = "working")
    /\ project = NoProject
    /\ sources = EmptyMap
    /\ remotes = EmptyMap
    /\ dvc_remotes = {}
    /\ build_targets = EmptyMap
    /\ last = NoLast

\* the URLs sources.add and remotes.add are tried with
SourceUrls == {UrlEmpty, UrlLocal, UrlMissing, UrlFtp,
               UrlRemote("r"), UrlRemote("zz"), UrlRemoteRoot("r")}

RemoteUrls == {UrlEmpty, UrlLocal, UrlMissing, UrlHttp, UrlFtp, UrlGit, UrlDvc,
               UrlDrive}

\* outcomes of the two backend calls of one operation: both succeed, or one fails
BackendOutcomes == {<<TRUE, TRUE>>, <<FALSE, TRUE>>, <<TRUE, FALSE>>}

NextSources ==
    \/ \E name \in TriedNames, url \in SourceUrls, ok \in BackendOutcomes :
          SourcesAdd(name, url, ok[1], ok[2]) /\ UNCHANGED plVars
    \/ \E name \in SourceNames \cup {MAIN_TARGET}, force \in BOOLEAN,
          ok \in BackendOutcomes :
          SourcesRemove(name, force, ok[1], ok[2]) /\ UNCHANGED plVars
    \/ \E url \in RemoteUrls, addOk \in BOOLEAN :
          RemotesAdd("r", url, addOk) /\ writeable /\ UNCHANGED plVars
    \/ \E name \in RemoteNames, force \in BOOLEAN, removeOk \in BOOLEAN :
          RemotesRemove(name, force, removeOk) /\ writeable /\ UNCHANGED plVars

SpecSources == InitSources /\ [][NextSources]_vars

-----------------------------------------------------------------------------
\* Trees with stage chains

\* the parents relation of the targets, as a graph over the target names
ParentGraph(data) ==
    [nodes |-> DOMAIN data \cup UNION { data[t].parents : t \in DOMAIN data },
     edges |-> { e \in (UNION { data[t].parents : t \in DOMAIN data })
                         \X DOMAIN data : e[1] \in data[e[2]].parents }]

Acyclic(g) == \A n \in g.nodes : n \notin Ancestors(g, n)

\* every parent is another source target and no target is its own ancestor
ValidParents(data) ==
    /\ \A t \in DOMAIN data :
          data[t].parents \subseteq DOMAIN data \ {MAIN_TARGET}
    /\ Acyclic(ParentGraph(data))

GeneratedSource == [url |-> "", remote |-> ""]

\* the tree configs over a set of sources whose targets have the given parents
TreeWith(srcs, parents) ==
    /\ PipelineIdle
    /\ writeable = TRUE
    /\ position = "working"
    /\ project = NoProject
    /\ sources = [s \in srcs |-> GeneratedSource]
    /\ remotes = EmptyMap
    /\ dvc_remotes = {}
    /\ build_targets = [s \in srcs |->
                          [stages |-> <<BuildStage(BASE_STAGE, "source")>>,
                           parents |-> parents[s]]]
    /\ last = NoLast

\* a tree loaded from a well-formed config
InitTargets ==
    \E srcs \in SUBSET SourceNames :
        \E parents \in [srcs -> SUBSET srcs] :
            /\ TreeWith(srcs, parents)
            /\ ValidParents(build_targets)

\* the names the stage operations are tried with
StagedTargets ==
    { TargetName(t, NoStage) : t \in SourceNames \cup {MAIN_TARGET, "zz"} }
    \cup { TargetName(t, BASE_STAGE) : t \in {"a", MAIN_TARGET} }
    \cup { TargetName("a", StageName("transform", -1)) }

PipelineTargets ==
    { TargetName(t, NoStage) : t \in SourceNames \cup {MAIN_TARGET, "zz"} }
    \cup { TargetName("a", s) : s \in {BASE_STAGE, StageName("transform", -1)} }

TriedPrev == {NoStage, BASE_STAGE, StageName("transform", -1)}

TriedStageNames == {NoStage, BASE_STAGE, StageName("transformed", -1)}

StageTypes == {"transform"}

\* the stage chains are edited first, then pipelines are made of the tree
NextTargets ==
    \/ \E target \in StagedTargets, type \in StageTypes, prev \in TriedPrev,
          name \in TriedStageNames :
          pc = "idle" /\ AddStage(target, type, prev, name) /\ UNCHANGED plVars
    \/ \E target \in {"a", MAIN_TARGET, "zz"},
          name \in {BASE_STAGE, StageName("transform", -1)} :
          pc = "idle" /\ RemoveStage(target, name) /\ UNCHANGED plVars
    \/ \E target \in PipelineTargets : MakePipeline(target)
    \/ \E current \in pl.nodes : JoinConflict(current)

SpecTargets == InitTargets /\ [][NextTargets]_vars

\* the parents a target of a hand-written config is given: none, a source
\* target (possibly itself), both, the main target, a name that is no target
ParentChoices == {{}, {"a"}, {"b"}, {"a", "b"}, {MAIN_TARGET}, {"zz"}}

\* a tree loaded from a config whose targets name any parents
InitConfig ==
    \E parents \in [SourceNames -> ParentChoices] :
        TreeWith(SourceNames, parents)

SpecConfig == InitConfig /\ [][NextTargets]_vars

-----------------------------------------------------------------------------
\* Properties of the registries and of the pipeline assembly

\* the last make_pipeline call got as far as _make_full_pipeline
FullPipelineMade ==
    /\ op = "make_pipeline"
    /\ \/ last.ret[1].stage # NoStage
       \/ last.ret[1].target \in DOMAIN build_targets

ProjectIsOnlyHead ==
    /\ err # "KeyError"
    /\ Acyclic(full)
    /\ Sinks(full) = {HeadNode(build_targets, MAIN_TARGET)}

\* C3 as stated: for any sources, stage chains and target parents, the graph
\* built by _make_full_pipeline is acyclic and its only node without
\* successors is the head stage of 'project'.
C3_AsStated == FullPipelineMade => ProjectIsOnlyHead

\* C3: when every target's parents are other source targets of the tree and
\* the parents relation has no cycle, the graph built by _make_full_pipeline
\* is acyclic and its only node without successors is the head stage of
\* 'project'.
C3_ValidParentsGiveDagWithProjectHead ==
    (FullPipelineMade /\ ValidParents(build_targets)) => ProjectIsOnlyHead

C3_Witness ==
    /\ FullPipelineMade
    /\ ValidParents(build_targets)
    /\ \E t \in DOMAIN build_targets : build_targets[t].parents # {}
    /\ AddedStages(build_targets) >= 2
    /\ Cardinality(full.nodes) >= 5

C9_TargetsFollowSources ==
    /\ DOMAIN BuildTargetsData(build_targets, sources)
          = DOMAIN sources \cup {MAIN_TARGET}
    /\ (last.op = "sources.add" /\ last.err = "") =>
          /\ DOMAIN build_targets = DOMAIN sources \cup {MAIN_TARGET}
          /\ last.name \in DOMAIN sources
          /\ build_targets[last.name].stages
                = <<BuildStage(BASE_STAGE, "source")>>
    /\ (last.op = "sources.remove" /\ last.err = "") =>
          /\ DOMAIN build_targets = DOMAIN sources \cup {MAIN_TARGET}
          /\ last.name \notin DOMAIN sources

C9_Witness ==
    /\ last = [op |-> "sources.remove", name |-> "a", err |-> "",
               ret |-> <<FALSE>>]
    /\ DOMAIN sources = {"b"}
    /\ DOMAIN build_targets = {"b", MAIN_TARGET}

\* C10: the first stage of every build target is 'root' and no later stage
\* is called 'root', whatever add_stage and remove_stage calls were made.
C10_RootStaysFirst ==
    \A t \in DOMAIN build_targets :
        LET stages == build_targets[t].stages
        IN /\ Len(stages) >= 1
           /\ stages[1].name = BASE_STAGE
           /\ \A i \in 2..Len(stages) : stages[i].name # BASE_STAGE

C10_Witness ==
    /\ last.op = "remove_stage"
    /\ last.name = "a"
    /\ "a" \in DOMAIN build_targets
    /\ Len(build_targets["a"].stages) >= 3
    /\ build_targets["a"].stages[2].name = StageName("transformed", -1)

\* C11: a sources.add call with a name that is already a source fails with
\* SourceExistsError and leaves the sources, the remotes (config and backend)
\* and the build targets as they were.
C11_ExistingNameRejected ==
    [][ (last'.op = "sources.add" /\ last'.name \in DOMAIN sources) =>
            /\ last'.err = "SourceExistsError"
            /\ sources' = sources
            /\ remotes' = remotes
            /\ dvc_remotes' = dvc_remotes
            /\ build_targets' = build_targets ]_vars

C11_Witness ==
    /\ last.op = "sources.add"
    /\ last.err = "SourceExistsError"
    /\ last.name \in DOMAIN sources
    /\ sources[last.name].remote # ""
    /\ writeable

\* C12: when a sources.add call whose name has no remote yet fails in the
\* backend import, the remotes registry and the sources registry are the same
\* after the call as before it (the remote made for the source is rolled back).
C12_ImportFailureRestoresRegistries ==
    [][ ( /\ last'.op = "sources.add"
          /\ last'.ret = <<"import">>
          /\ last'.name \notin DOMAIN remotes ) =>
            /\ remotes' = remotes
            /\ sources' = sources ]_vars

\* C13: on a tree attached to a committed revision, a sources.add call with a
\* valid new name fails with ReadonlyProjectError and leaves the sources and
\* the build targets of the tree as they were.
C13_RevisionTreeIsReadonly ==
    [][ ( /\ position = "revision"
          /\ last'.op = "sources.add"
          /\ ValidateName(last'.name) = ""
          /\ last'.name \notin DOMAIN sources ) =>
            /\ last'.err = "ReadonlyProjectError"
            /\ sources' = sources
            /\ build_targets' = build_targets ]_vars

UrlOf(text) == CHOOSE u \in RemoteUrls : u.text = text

RemoteNotRegistered ==
    /\ last'.err = "ValueError"
    /\ remotes' = remotes
    /\ dvc_remotes' = dvc_remotes

\* C15 as stated: remotes.add fails with a validation error for every url
\* whose scheme is not one of '', remote, s3, ssh, http, https, and registers
\* no remote then.
C15_AsStated ==
    [][ ( /\ last'.op = "remotes.add"
          /\ UrlOf(last'.ret[1]).scheme \notin SUPPORTED_PROTOCOLS ) =>
            RemoteNotRegistered ]_vars

\* C15: remotes.add fails with a validation error for every url whose scheme
\* is not one of '', remote, s3, ssh, http, https and which is not an
\* existing local path, and registers no remote then, neither in the config
\* nor in the backend.
C15_UnsupportedSchemeRejected ==
    [][ ( /\ last'.op = "remotes.add"
          /\ UrlOf(last'.ret[1]).scheme \notin SUPPORTED_PROTOCOLS
          /\ ~UrlOf(last'.ret[1]).exists ) =>
            RemoteNotRegistered ]_vars

C15_Witness ==
    /\ last.op = "remotes.add"
    /\ last.ret = <<UrlDvc.text>>
    /\ last.err = "ValueError"
    /\ "r" \in DOMAIN remotes
    /\ remotes["r"].url = UrlHttp.text

\* C16: remotes.add with a url that has no scheme and whose path does not
\* exist locally fails and registers no remote.
C16_MissingLocalPathRejected ==
    [][ ( /\ last'.op = "remotes.add"
          /\ UrlOf(last'.ret[1]).scheme = ""
          /\ ~UrlOf(last'.ret[1]).exists ) =>
            ( /\ last'.err # ""
              /\ remotes' = remotes
              /\ dvc_remotes' = dvc_remotes ) ]_vars

-----------------------------------------------------------------------------
\* Project: refs, caches, index and revisions

MaxHashes == 2

\* names standing for 40-character object names
HashNames == <<"h1", "h2", "h3", "h4">>

Hashes == { HashNames[i] : i \in 1..MaxHashes }

\* the name of the git tree object of a commit, another object than the commit
TreeHashNames == <<"t1", "t2", "t3", "t4">>

GitTreeHash(h) == TreeHashNames[CHOOSE i \in 1..Len(HashNames) : HashNames[i] = h]

\* Python's None as a ref
None == "None"

Refs == {None, "", "index", "HEAD"} \cup Hashes

\* len(obj_hash): -1 stands for the TypeError of len(None)
PyLen(x) ==
    IF x = None THEN -1
    ELSE IF x \in Hashes THEN 40
    ELSE Len(x)

\* Tree(tree_config, parent=self, rev=obj_hash)
Tree(tree_config, rev) == [rev |-> rev, sources |-> tree_config]

\* a source entry of a tree config kept by the project
SourceEntry(url, hash) == [url |-> url, remote |-> "", hash |-> hash]

\* DvcWrapper.make_cache_path: the exception raised, "" when none
DvcMakeCachePath(obj_hash) ==
    IF PyLen(obj_hash) = -1 THEN "TypeError"
    ELSE IF PyLen(obj_hash) # 40 THEN "AssertionError"
    ELSE ""

\* DvcWrapper.is_cached (no object name of 40 characters ends with '.dir')
DvcIsCached(p, obj_hash) ==
    LET e == DvcMakeCachePath(obj_hash)
    IN  IF e # "" THEN [err |-> e, val |-> FALSE]
        ELSE [err |-> "", val |-> obj_hash \in p.dvc_cache]

\* the first try of _parse_ref: Project has _git and no attribute git, so
\* self.git raises AttributeError before rev_parse is called
GitRevParse(p, ref) == "AttributeError"

\* Project._parse_ref
ParseRef(p, ref) ==
    LET first == GitRevParse(p, ref)
        obj_type1 == IF first = "commit" THEN "tree" ELSE ""
        c == DvcIsCached(p, ref)
    IN  IF first \notin {"commit", "AttributeError"}
        THEN [err |-> "AssertionError", obj_type |-> obj_type1, obj_hash |-> ""]
        ELSE IF c.err # "" \/ ~c.val
        THEN [err |-> "UnknownRefError", obj_type |-> obj_type1, obj_hash |-> ""]
        ELSE [err |-> "", obj_type |-> "blob", obj_hash |-> ref]

\* Project._make_cache_path applied to a value of the given length
MakeCachePath(len) == IF len # 40 THEN "AssertionError" ELSE ""

\* Project.is_rev_cached: _is_cached gets the pair returned by _parse_ref
IsRevCached(p, rev) ==
    LET pr == ParseRef(p, rev)
        e == MakeCachePath(Len(<<pr.obj_type, pr.obj_hash>>))
    IN  IF pr.err # "" THEN [err |-> pr.err, val |-> FALSE]
        ELSE IF e # "" THEN [err |-> e, val |-> FALSE]
        ELSE [err |-> "", val |-> pr.obj_hash \in p.cache]

\* Project._materialize_rev: the tree is written under the tree's object name
MaterializeRev(p, rev) ==
    IF rev \notin DOMAIN p.revs THEN [err |-> "BadName", project |-> p]
    ELSE [err |-> "",
          project |-> [p EXCEPT !.cache = @ \cup {GitTreeHash(rev)}]]

\* Project.get_rev
GetRevCall(p, ref) ==
    LET pr == ParseRef(p, ref)
        fail(e, q) == [err |-> e, tree |-> <<>>, project |-> q]
    IN  IF pr.err # "" THEN fail(pr.err, p)
        ELSE IF pr.obj_type # "tree" THEN fail("AssertionError", p)
        ELSE IF pr.obj_hash \in {None, ""}
        THEN [err |-> "", tree |-> Tree(p.working, pr.obj_hash), project |-> p]
        ELSE IF pr.obj_hash = "index"
        THEN [err |-> "", tree |-> Tree(p.index, pr.obj_hash), project |-> p]
        ELSE LET c == IsRevCached(p, pr.obj_hash)
             IN  IF c.err # "" THEN fail(c.err, p)
                 ELSE IF ~c.val
                 THEN LET m == MaterializeRev(p, pr.obj_hash)
                      IN  IF m.err # "" THEN fail(m.err, p)
                          ELSE IF pr.obj_hash \notin m.project.cache
                          THEN fail("FileNotFoundError", m.project)
                          ELSE [err |-> "",
                                tree |-> Tree(p.revs[pr.obj_hash], pr.obj_hash),
                                project |-> m.project]
                 ELSE fail("UnboundLocalError", p)

\* Project.add: the loop stops at self.working_tree; DvcWrapper has no
\* compute_hash, so nothing after line 1662 could run either
ProjectAddCall(p, srcs) ==
    IF srcs = <<>> THEN [err |-> "ValueError", project |-> p]
    ELSE LET wt == GetRevCall(p, None)
         IN  IF wt.err # "" THEN [err |-> wt.err, project |-> wt.project]
             ELSE IF srcs[1] \notin DOMAIN wt.tree.sources
             THEN [err |-> "UnknownSourceError", project |-> wt.project]
             ELSE [err |-> "AttributeError", project |-> wt.project]

\* the sources of a config in iteration order
SourceOrder(cfg) ==
    LET all == <<"a", "b">>
        keep(n) == n \in DOMAIN cfg
    IN  SelectSeq(all, keep)

RECURSIVE MoveIndexObjects(_, _, _)
\* the loop of Project.commit over the index sources
MoveIndexObjects(p, cfg, names) ==
    IF names = <<>> THEN [err |-> "", project |-> p]
    ELSE LET h == cfg[Head(names)].hash
         IN  IF h \notin p.index_cache
             THEN [err |-> "NotADirectoryError", project |-> p]
             ELSE MoveIndexObjects(
                     [p EXCEPT !.index_cache = @ \ {h}, !.cache = @ \cup {h}],
                     cfg, Tail(names))

\* GitWrapper.commit: the name of the new revision
NewRevision(p) == CHOOSE h \in Hashes \cup {"h0"} : h \notin DOMAIN p.revs

\* Project.commit, lines 1703-1709: the index tree becomes the new revision
CommitTree(q, new) ==
    [q EXCEPT !.revs = MapSet(@, new, q.index),
              !.head = new,
              !.cache = @ \cup {new},
              !.index = EmptyMap,
              !.index_cache = {}]

\* Project.commit after the loop over the index sources
CommitMoved(mv) ==
    IF mv.err # "" THEN [err |-> mv.err, ret |-> None, project |-> mv.project]
    ELSE [err |-> "", ret |-> None,
          project |-> CommitTree(mv.project, NewRevision(mv.project))]

\* Project.commit once self.index is evaluated
CommitIndex(p, idx) ==
    IF idx.err # "" THEN [err |-> idx.err, ret |-> None, project |-> p]
    ELSE CommitMoved(MoveIndexObjects(idx.project, idx.tree.sources,
                                      SourceOrder(idx.tree.sources)))

\* Project.commit: no return statement, the call evaluates to None
CommitCall(p, message) == CommitIndex(p, GetRevCall(p, "index"))

\* the attributes a Project object has: __init__ sets _aux_dir, _root_dir,
\* _git and _dvc, and the class defines no git, dvc or dvc_filepath
ProjectAttrs == {"_aux_dir", "_root_dir", "_git", "_dvc"}

HasAttr(name) == name \in ProjectAttrs

\* a checkout target: a path and whether it exists on disk
Target(name, exists) == [name |-> name, exists |-> exists]

\* the targets argument of checkout: None, a string or a list
TargetArgs ==
    { [kind |-> "none", val |-> <<>>],
      [kind |-> "str", val |-> <<Target("a.dvc", TRUE)>>],
      [kind |-> "list", val |-> <<>>],
      [kind |-> "list", val |-> <<Target("a", FALSE)>>],
      [kind |-> "list", val |-> <<Target("a.dvc", TRUE), Target("b", FALSE)>>] }

\* Project.checkout, lines 1720-1725: the targets as a list
NormalizeTargets(arg) == arg.val

\* dvc_filepath(name): the dvcfile of a target
DvcFilePath(name) ==
    CASE name = "a" -> "a.dvc"
      [] name = "b" -> "b.dvc"
      [] OTHER -> name

\* Project.checkout, lines 1726-1728: names that are not paths become dvcfiles
ResolveTargets(targets) ==
    IF \A i \in DOMAIN targets : targets[i].exists
    THEN [err |-> "", targets |-> targets]
    ELSE IF ~HasAttr("dvc_filepath")
    THEN [err |-> "AttributeError", targets |-> targets]
    ELSE [err |-> "",
          targets |-> [i \in DOMAIN targets |->
                          IF targets[i].exists THEN targets[i]
                          ELSE Target(DvcFilePath(targets[i].name), TRUE)]]

GitCheckout(rev, targets) ==
    [to |-> "git.checkout", rev |-> rev, targets |-> targets]

DvcCheckout(targets) ==
    [to |-> "dvc.checkout", rev |-> "", targets |-> targets]

\* Project.checkout, lines 1730-1732: the two delegated calls, in order
CheckoutResolved(rev, targets, gitOk, dvcOk) ==
    IF ~HasAttr("git") THEN [err |-> "AttributeError", calls |-> <<>>]
    ELSE IF ~gitOk
    THEN [err |-> "GitCommandError", calls |-> <<GitCheckout(rev, targets)>>]
    ELSE IF ~HasAttr("dvc")
    THEN [err |-> "AttributeError", calls |-> <<GitCheckout(rev, targets)>>]
    ELSE [err |-> IF dvcOk THEN "" ELSE "DvcError",
          calls |-> <<GitCheckout(rev, targets), DvcCheckout(targets)>>]

CheckoutTargets(rev, r, gitOk, dvcOk) ==
    IF r.err # "" THEN [err |-> r.err, calls |-> <<>>]
    ELSE CheckoutResolved(rev, r.targets, gitOk, dvcOk)

\* Project.checkout
CheckoutCall(rev, arg, gitOk, dvcOk) ==
    CheckoutTargets(rev, ResolveTargets(NormalizeTargets(arg)), gitOk, dvcOk)

\* ---- actions ----

ProjectUnchanged ==
    UNCHANGED <<plVars, writeable, position, sources, remotes, dvc_remotes,
                build_targets>>

GetRev(ref) ==
    LET r == GetRevCall(project, ref)
    IN  /\ project' = r.project
        /\ last' = [op |-> "get_rev", name |-> ref, err |-> r.err,
                    ret |-> IF r.err = "" THEN <<r.tree>> ELSE <<>>]
        /\ ProjectUnchanged

ProjectAdd(srcs) ==
    LET r == ProjectAddCall(project, srcs)
    IN  /\ project' = r.project
        /\ last' = [op |-> "add", name |-> "", err |-> r.err, ret |-> <<srcs>>]
        /\ ProjectUnchanged

Commit(message) ==
    LET r == CommitCall(project, message)
    IN  /\ project' = r.project
        /\ last' = [op |-> "commit", name |-> message, err |-> r.err,
                    ret |-> IF r.err = "" THEN <<r.ret>> ELSE <<>>]
        /\ ProjectUnchanged

\* calls: the delegated calls that were made, in order
Checkout(rev, arg, gitOk, dvcOk) ==
    LET r == CheckoutCall(rev, arg, gitOk, dvcOk)
    IN  /\ last' = [op |-> "checkout", name |-> rev, err |-> r.err,
                    ret |-> <<arg, r.calls>>]
        /\ UNCHANGED project
        /\ ProjectUnchanged

\* ---- specification ----

WorkingConfigs ==
    { EmptyMap,
      [n \in {"a"} |-> SourceEntry("./data", "")],
      [n \in {"a", "b"} |-> SourceEntry("./data", "")] }

IndexConfigs(h) == { EmptyMap, [n \in {"a"} |-> SourceEntry("./data", h)] }

CommittedConfig == [n \in {"a"} |-> SourceEntry("./data", HashNames[1])]

ProjectStates ==
    { [ working |-> w, index |-> i,
        index_cache |-> { i[n].hash : n \in DOMAIN i },
        cache |-> c, dvc_cache |-> d, revs |-> [h \in C |-> CommittedConfig],
        head |-> hd ] :
        w \in WorkingConfigs, i \in IndexConfigs(HashNames[1]),
        C \in SUBSET Hashes, c \in SUBSET Hashes, d \in SUBSET Hashes,
        hd \in Hashes \cup {""} }

ValidProject(p) ==
    /\ p.cache \subseteq DOMAIN p.revs
    /\ IF DOMAIN p.revs = {} THEN p.head = "" ELSE p.head \in DOMAIN p.revs

InitProject ==
    /\ PipelineIdle
    /\ writeable = FALSE
    /\ position = "detached"
    /\ project \in { p \in ProjectStates : ValidProject(p) }
    /\ sources = EmptyMap
    /\ remotes = EmptyMap
    /\ dvc_remotes = {}
    /\ build_targets = EmptyMap
    /\ last = NoLast

AddLists == { <<>>, <<"a">>, <<"b">>, <<"a", "b">> }

NextProject ==
    \/ \E ref \in Refs : GetRev(ref)
    \/ \E srcs \in AddLists : ProjectAdd(srcs)
    \/ Commit("m")
    \/ \E rev \in {None} \cup Hashes, arg \in TargetArgs, gitOk, dvcOk \in BOOLEAN :
          Checkout(rev, arg, gitOk, dvcOk)

SpecProject == InitProject /\ [][NextProject]_vars

\* ---- claims about Project ----

\* C17: get_rev(ref) returns the working tree for None and for '', and the
\* index tree for 'index'.
C17_WorkingAndIndexTrees ==
    [][ (last'.op = "get_rev" /\ last'.name \in {None, "", "index"}) =>
            /\ last'.err = ""
            /\ last'.ret = << IF last'.name = "index"
                              THEN Tree(project.index, "index")
                              ELSE Tree(project.working, last'.name) >> ]_vars

\* C18: get_rev(ref) returns the tree of a ref that the VCS resolves, both
\* when the revision is not cached yet (it is materialized) and when it is
\* cached; UnknownRefError is raised only for a ref that resolves neither in
\* the VCS nor in the cache.
C18_ResolvableRefGivesTree ==
    [][ last'.op = "get_rev" =>
            /\ last'.name \in DOMAIN project.revs =>
                  /\ last'.err = ""
                  /\ last'.ret = <<Tree(project.revs[last'.name], last'.name)>>
            /\ last'.err = "UnknownRefError" =>
                  /\ last'.name \notin DOMAIN project.revs
                  /\ last'.name \notin project.cache \cup project.dvc_cache ]_vars

\* C19: commit(message) returns the hash of the new head revision.
C19_CommitReturnsHead ==
    [][ last'.op = "commit" =>
            /\ last'.err = ""
            /\ last'.ret = <<project'.head>>
            /\ project'.head \notin DOMAIN project.revs ]_vars

\* a tree config without its hash fields
StripHash(cfg) == [n \in DOMAIN cfg |-> [url |-> cfg[n].url, remote |-> cfg[n].remote]]

\* C20: after add of all sources of the working tree and h = commit(m), the
\* tree get_rev(h) has the config of the working tree, up to hash fields.
C20_CommitRoundTrip ==
    [][ ( /\ last'.op = "add"
          /\ last'.ret[1] # <<>>
          /\ last'.ret[1] = SourceOrder(project.working) ) =>
            LET c == CommitCall(project', "m")
                g == GetRevCall(c.project, c.ret)
            IN  /\ last'.err = ""
                /\ c.err = ""
                /\ g.err = ""
                /\ StripHash(g.tree.sources) = StripHash(project.working) ]_vars

\* C21: in checkout(rev, targets) the VCS checkout is always invoked, before
\* the object-cache checkout and with the same resolved target list; when the
\* VCS checkout fails the cache checkout is not invoked.
C21_VcsCheckoutThenCacheCheckout ==
    [][ last'.op = "checkout" =>
            LET calls == last'.ret[2]
            IN  /\ Len(calls) >= 1
                /\ calls[1].to = "git.checkout"
                /\ calls[1].rev = last'.name
                /\ last'.err = "GitCommandError" => Len(calls) = 1
                /\ Len(calls) >= 2 =>
                      /\ calls[2].to = "dvc.checkout"
                      /\ calls[2].targets = calls[1].targets ]_vars

-----------------------------------------------------------------------------
\* Ignore files: _update_ignore_file on the .gitignore of a project

MaxFileLines == 2

\* a path is the sequence of its components: 'a/b' is <<"a", "b">>.
\* All paths written to a file, in the order of sorted() on their text.
PathOrder == << <<"a">>, <<"a", "b">>, <<"b">>, <<"b", "c">>, <<"c">> >>

IgnoredPaths == { PathOrder[i] : i \in DOMAIN PathOrder }

\* the paths given to the operation: 'a', 'a/b', './b' and 'c'
PathInputs == { <<"a">>, <<"a", "b">>, <<".", "b">>, <<"c">> }

\* a line '[/]<path>[ # comment]'; the path is <<>> on a blank or comment line
Line(lead, path, comment) == [lead |-> lead, path |-> path, comment |-> comment]

HeaderLine == Line(FALSE, <<>>, TRUE)

PathLine(path) == Line(FALSE, path, FALSE)

\* the lines a file may hold before the first call
LineChoices ==
    { HeaderLine, PathLine(<<"a">>), Line(TRUE, <<"a">>, FALSE),
      PathLine(<<"a", "b">>), Line(TRUE, <<"a", "b">>, TRUE) }

IgnoreFile(exists, lines) == [exists |-> exists, lines |-> lines]

InitialFiles ==
    { IgnoreFile(FALSE, <<>>) } \cup
    { IgnoreFile(TRUE, l) : l \in UNION { [1..n -> LineChoices] : n \in 0..MaxFileLines } }

IgnoreModes == {"rewrite", "append", "remove"}

\* _make_ignored_path: normpath drops the '.' components; join and relpath
\* leave a relative path as it is
MakeIgnoredPath(path) ==
    LET keep(c) == c # "."
    IN  SelectSeq(path, keep)

\* line.split('#', maxsplit=1)[0].split('/', maxsplit=1)[-1].strip(): what
\* follows the first '/' of the line, the whole line when it has none
ReadLine(line) ==
    IF line.lead THEN line.path
    ELSE IF Len(line.path) >= 2 THEN Tail(line.path)
    ELSE line.path

\* the set read from the file at lines 1927-1931
ReadPaths(file) == { ReadLine(file.lines[i]) : i \in DOMAIN file.lines }

\* sorted(p for p in paths_to_write if p)
SortedPaths(paths) ==
    LET keep(p) == p \in paths
    IN  SelectSeq(PathOrder, keep)

\* the header, then one line per path
WriteFile(paths) ==
    LET sorted == SortedPaths(paths)
    IN  IgnoreFile(TRUE, <<HeaderLine>> \o [i \in DOMAIN sorted |-> PathLine(sorted[i])])

\* _update_ignore_file
UpdateIgnoreFile(file, paths, mode) ==
    LET given == { MakeIgnoredPath(p) : p \in paths }
        read == IF mode \in {"append", "remove"} THEN ReadPaths(file) ELSE {}
        paths_to_write == IF mode \in {"append", "rewrite"} THEN read \cup given
                          ELSE read \ given
    IN  WriteFile(paths_to_write \ {<<>>})

\* GitWrapper.ignore(paths, mode)
Ignore(paths, mode) ==
    /\ project' = [ignore_file |-> UpdateIgnoreFile(project.ignore_file, paths, mode)]
    /\ last' = [op |-> "ignore", name |-> mode, err |-> "", ret |-> <<paths>>]
    /\ ProjectUnchanged

InitIgnore ==
    /\ PipelineIdle
    /\ writeable = FALSE
    /\ position = "detached"
    /\ project \in { [ignore_file |-> f] : f \in InitialFiles }
    /\ sources = EmptyMap
    /\ remotes = EmptyMap
    /\ dvc_remotes = {}
    /\ build_targets = EmptyMap
    /\ last = NoLast

NextIgnore == \E paths \in SUBSET PathInputs, mode \in IgnoreModes : Ignore(paths, mode)

SpecIgnore == InitIgnore /\ [][NextIgnore]_vars

\* the ignored paths a file holds: its lines without comments and leading
\* path separators
Entries(file) == { file.lines[i].path : i \in DOMAIN file.lines } \ {<<>>}

\* C22: for all path sets P and Q, nested paths included, and any file
\* content, append(P \cup Q) leaves the same set of ignored paths in the file
\* as append(P) followed by append(Q).
C22_AppendUnion ==
    \A P, Q \in SUBSET PathInputs :
        Entries(UpdateIgnoreFile(project.ignore_file, P \cup Q, "append"))
          = Entries(UpdateIgnoreFile(
                        UpdateIgnoreFile(project.ignore_file, P, "append"),
                        Q, "append"))

\* C23: for any file content and path set P, rewrite(P) leaves the same file
\* content (the header, then exactly the paths of P) as removing every
\* existing entry and then append(P).
C23_RewriteIsRemoveAllThenAppend ==
    \A P \in SUBSET PathInputs :
        LET file == project.ignore_file
            rewritten == UpdateIgnoreFile(file, P, "rewrite")
        IN  /\ rewritten = WriteFile({ MakeIgnoredPath(p) : p \in P })
            /\ rewritten = UpdateIgnoreFile(
                               UpdateIgnoreFile(file, Entries(file), "remove"),
                               P, "append")

-----------------------------------------------------------------------------
\* parse_target_revpath: '[<rev>:]<target>'

MaxRevpathLen == 4

\* a revpath is the sequence of its characters
RevpathChars == {"r", ":", "t"}

Revpaths == UNION { [1..n -> RevpathChars] : n \in 0..MaxRevpathLen }

\* str.find(ch): the 0-based position of the first ch, -1 when there is none
Find(str, ch) ==
    IF \E i \in DOMAIN str : str[i] = ch
    THEN (CHOOSE i \in DOMAIN str :
             str[i] = ch /\ \A j \in 1..(i - 1) : str[j] # ch) - 1
    ELSE -1

\* the slices str[:pos] and str[pos:], pos 0-based
SliceTo(str, pos) == SubSeq(str, 1, pos)

SliceFrom(str, pos) == SubSeq(str, pos + 1, Len(str))

\* parse_target_revpath
ParseTargetRevpath(revpath) ==
    LET sep_pos == Find(revpath, ":")
    IN  IF -1 < sep_pos
        THEN [rev |-> SliceTo(revpath, sep_pos), target |-> SliceFrom(revpath, sep_pos)]
        ELSE [rev |-> <<>>, target |-> revpath]

ParseRevpath(revpath) ==
    LET r == ParseTargetRevpath(revpath)
    IN  /\ last' = [op |-> "parse_target_revpath", name |-> "", err |-> "",
                    ret |-> <<revpath, r.rev, r.target>>]
        /\ UNCHANGED project
        /\ ProjectUnchanged

InitRevpath == PipelineIdle /\ TreeIdle

NextRevpath == \E revpath \in Revpaths : ParseRevpath(revpath)

SpecRevpath == InitRevpath /\ [][NextRevpath]_vars

HasChar(str, ch) == \E i \in DOMAIN str : str[i] = ch

\* C24: for an input '<rev>:<target>' parse_target_revpath returns (rev,
\* target), the target without the separator, and for an input without ':' it
\* returns ('', input).
C24_RevpathSplit ==
    [][ last'.op = "parse_target_revpath" =>
            LET revpath == last'.ret[1]
                rev == last'.ret[2]
                target == last'.ret[3]
            IN  IF HasChar(revpath, ":")
                THEN /\ revpath = rev \o <<":">> \o target
                     /\ ~HasChar(rev, ":")
                ELSE rev = <<>> /\ target = revpath ]_vars

\* C25: when joining the parents of a stage raises a merge conflict, the
\* DatasetMergeError carries as sources the names of the contributing sources
\* ({'a', 'b'} for make_dataset('project') over the sources a and b).
C25_MergeErrorNamesSources ==
    [][ (last'.op = "make_dataset" /\ last'.err = "DatasetMergeError") =>
            last'.ret[2] = { StageNode(p[1], NoStage) :
                                p \in Predecessors(pl, last'.ret[1]) } ]_vars

\* what sources.add(name, {url}) leaves behind, the build targets as the
\* registry hands them out
SourcesAddResult(srcs, rem, dvc, targets, wr, name, url, ok) ==
    LET r == DataSourceAdd(srcs, rem, dvc, wr, name, url, ok[1], ok[2])
    IN  [err |-> r.err, sources |-> r.sources, remotes |-> r.remotes,
         dvc_remotes |-> r.dvc_remotes,
         build_targets |->
             BuildTargetsData(IF r.err = "" THEN AddTarget(targets, r.sources, name)
                              ELSE targets, r.sources)]

ExpectedCursor(stages, target, prev) ==
    IF prev # NoStage THEN prev
    ELSE IF target.stage # NoStage THEN target.stage
    ELSE stages[Len(stages)].name

\* `after` is `before` with one stage put right behind the stage `cursor`
InsertedAfter(before, after, cursor) ==
    /\ Len(after) = Len(before) + 1
    /\ \E i \in 1..Len(before) :
          /\ before[i].name = cursor
          /\ SubSeq(after, 1, i) = SubSeq(before, 1, i)
          /\ SubSeq(after, i + 2, Len(after)) = SubSeq(before, i + 1, Len(before))

\* C27: add_stage takes as cursor the prev argument, else the '.stage' suffix
\* of the target argument, else the tail of the chain; it inserts the new
\* stage right behind the cursor stage and keeps the order of the other
\* stages; a cursor that is no stage of the target raises KeyError and leaves
\* the chain as it was.
C27_InsertAfterCursor ==
    \A target \in StagedTargets, type \in StageTypes, prev \in TriedPrev,
       name \in TriedStageNames :
        LET data == BuildTargetsData(build_targets, sources)
            r == AddStageCall(build_targets, sources, target, type, prev, name)
        IN  target.target \in DOMAIN data =>
              LET before == data[target.target].stages
                  after == r.data[target.target].stages
                  cursor == ExpectedCursor(before, target, prev)
              IN  /\ cursor \notin StageNamesOf(before) =>
                        r.err = "KeyError" /\ after = before
                  /\ r.err = "KeyError" => cursor \notin StageNamesOf(before)
                  /\ r.err = "" =>
                        /\ InsertedAfter(before, after, cursor)
                        /\ r.ret[1].stage \notin StageNamesOf(before)
                  /\ r.err # "" => after = before

\* a stage was added behind the root of a chain that had a stage already
C27_Witness ==
    /\ last.op = "add_stage"
    /\ last.err = ""
    /\ "a" \in DOMAIN build_targets
    /\ Len(build_targets["a"].stages) = 3
    /\ last.ret = <<TargetName("a", build_targets["a"].stages[2].name)>>

\* the last call was an add_stage that generated the name of the new stage:
\* the names given explicitly are never the name of a stage type
GeneratedName(l) ==
    /\ l.op = "add_stage"
    /\ l.err = ""
    /\ l.ret[1].stage.stem \in StageTypes

\* C28: every name add_stage generates has the form '<type>-<N>' with N a
\* number, the first stage of a type added to a target included.
C28_GeneratedNameIsNumbered ==
    [][ GeneratedName(last') => last'.ret[1].stage.num >= 0 ]_vars

DistinctStageNames(stages) == Cardinality(StageNamesOf(stages)) = Len(stages)

\* stage names a chain may hold when a name is generated
NamePool ==
    { BASE_STAGE, StageName("transformed", -1), StageName("transform", -1),
      StageName("transform", 1), StageName("transform", 2) }

\* C29: after any sequence of add_stage calls with explicit and generated
\* names, the stage names of each target are pairwise distinct: an explicit
\* name that exists already is rejected with an error and the chain is left
\* as it was, and a generated name never equals an existing stage name.
C29_StageNamesDistinct ==
    /\ \A t \in DOMAIN build_targets : DistinctStageNames(build_targets[t].stages)
    /\ \A names \in SUBSET NamePool, type \in StageTypes :
          GenerateNextName(names, type) \notin names
    /\ \A target \in StagedTargets, type \in StageTypes, prev \in TriedPrev,
          name \in TriedStageNames :
          LET data == BuildTargetsData(build_targets, sources)
              r == AddStageCall(build_targets, sources, target, type, prev, name)
          IN  target.target \in DOMAIN data =>
                LET before == data[target.target].stages
                    after == r.data[target.target].stages
                IN  /\ (name # NoStage /\ name \in StageNamesOf(before)) =>
                          r.err # "" /\ after = before
                    /\ r.err = "" => DistinctStageNames(after)

\* a name was generated in a chain that holds an explicitly named stage
C29_Witness ==
    /\ last.op = "add_stage"
    /\ last.err = ""
    /\ last.ret = <<TargetName("a", StageName("transform", 1))>>
    /\ StageNamesOf(build_targets["a"].stages)
         = { BASE_STAGE, StageName("transformed", -1), StageName("transform", 1) }

\* the type of the stage behind a node of the full pipeline
StageTypeOf(data, node) ==
    LET stages == data[node[1]].stages
        i == CHOOSE i \in 1..Len(stages) : stages[i].name = node[2]
    IN  stages[i].type

\* C30: in the full pipeline of any tree reached through the operations, a
\* project without sources included, every stage of type source has no parent
\* and every other stage has at least one. Target parents are written by no
\* operation, so the trees looked at are those without them.
C30_SourceStagesAreTheRoots ==
    ( /\ FullPipelineMade
      /\ err # "KeyError"
      /\ \A t \in DOMAIN build_targets : build_targets[t].parents = {} ) =>
        \A n \in full.nodes :
            IF StageTypeOf(build_targets, n) = "source"
            THEN Predecessors(full, n) = {}
            ELSE Predecessors(full, n) # {}

\* C31: on every pipeline with a single head and for every order in which the
\* parents are enumerated, the node on top of the to_visit stack holds no
\* dataset when the visit loop is about to pop it.
C31_PoppedNodeHasNoDataset ==
    ( /\ pc = "exec"
      /\ to_visit # <<>>
      /\ Cardinality(Sinks(pl)) = 1 ) =>
        dataset[Last(to_visit)] = "none"

\* C32: constructing a Pipeline from the serialized form of an acyclic graph
\* with exactly one terminal node succeeds, and the head of the pipeline is
\* that terminal node.
C32_SingleTerminalNodeIsHead ==
    (op = "Pipeline" /\ Cardinality(Sinks(pl)) = 1) =>
        (pc = "constructed" /\ err = "" /\ Sinks(pl) = {head})

\* a pipeline with one head in which every parentless node is a source
SourcesAreTheRoots ==
    /\ Cardinality(Sinks(pl)) = 1
    /\ \A n \in pl.nodes : Predecessors(pl, n) = {} => kind[n] # "join"

\* C33: on every such pipeline no iteration of the loop of
\* find_missing_sources raises, and when the loop ends the result is exactly
\* the set of parentless non-generated nodes reachable from the head over
\* reverse edges through nodes that are not cached.
C33_MissingSourcesExact ==
    [][ (pc = "fms" /\ missing_deps # <<>> /\ SourcesAreTheRoots) =>
            /\ pc' = "fms"
            /\ missing_deps' = <<>> => missing_sources' = NeededMissingSources
      ]_vars

-----------------------------------------------------------------------------
\* ProjectSourceDataset

\* a source config together with what the file system holds for it:
\* in_data_dir - join(data_dir(source), url) exists,
\* in_project_dir - join(project_dir, url) exists
DatasetSource(remote, in_data_dir, in_project_dir) ==
    [remote |-> remote, in_data_dir |-> in_data_dir,
     in_project_dir |-> in_project_dir]

DatasetSources ==
    { DatasetSource(r, d, p) : r \in {"", "r"}, d \in BOOLEAN, p \in BOOLEAN }

\* a loaded dataset: the _readonly attribute and Dataset.is_bound
SourceDataset(readonly, bound) == [_readonly |-> readonly, is_bound |-> bound]

\* ProjectSourceDataset.from_source: the path imported from and the flag
FromSourcePath(config) ==
    IF ~config.in_data_dir /\ config.remote = ""
    THEN [exists |-> config.in_project_dir, readonly |-> TRUE]
    ELSE [exists |-> config.in_data_dir, readonly |-> ~config.in_data_dir]

\* ProjectSourceDataset.readonly
Readonly(ds) == ~ds._readonly /\ ds.is_bound

\* ProjectSourceDataset.save: the exception raised, "" when none
SaveCall(ds, save_dir) ==
    IF save_dir = None /\ Readonly(ds) THEN "ReadonlyProjectError" ELSE ""

\* ProjectSourceDataset.from_cache(tree, source, path); the cached copy is
\* there, import_from gives a dataset bound or not to its path
FromCache(source, bound) ==
    /\ source \in DOMAIN sources
    /\ dataset' = MapSet(dataset, source, SourceDataset(TRUE, bound))
    /\ last' = [op |-> "from_cache", name |-> source, err |-> "", ret |-> <<>>]
    /\ UNCHANGED <<full, pl, kind, cached, nameOk, sliceTarget, op, pc, err,
                   head, missing_deps, checked_deps, missing_sources, to_visit,
                   use_count, inited, joined, lastAssigned, writeable, position,
                   project, sources, remotes, dvc_remotes, build_targets>>

\* ProjectSourceDataset.from_source(tree, source); import_from fails on a
\* path that does not exist
FromSource(source, bound) ==
    /\ source \in DOMAIN sources
    /\ LET r == FromSourcePath(sources[source])
       IN IF r.exists
          THEN /\ dataset' = MapSet(dataset, source,
                                    SourceDataset(r.readonly, bound))
               /\ last' = [op |-> "from_source", name |-> source, err |-> "",
                           ret |-> <<>>]
          ELSE /\ dataset' = dataset
               /\ last' = [op |-> "from_source", name |-> source,
                           err |-> "Exception", ret |-> <<>>]
    /\ UNCHANGED <<full, pl, kind, cached, nameOk, sliceTarget, op, pc, err,
                   head, missing_deps, checked_deps, missing_sources, to_visit,
                   use_count, inited, joined, lastAssigned, writeable, position,
                   project, sources, remotes, dvc_remotes, build_targets>>

\* dataset.save(save_dir) on a loaded dataset; ret is <<save_dir, readonly>>
Save(source, save_dir) ==
    /\ source \in DOMAIN dataset
    /\ last' = [op |-> "save", name |-> source,
                err |-> SaveCall(dataset[source], save_dir),
                ret |-> <<save_dir, Readonly(dataset[source])>>]
    /\ UNCHANGED <<plVars, writeable, position, project, sources, remotes,
                   dvc_remotes, build_targets>>

InitDataset ==
    /\ PipelineIdle
    /\ writeable = FALSE
    /\ position = "detached"
    /\ project = NoProject
    /\ \E names \in SUBSET SourceNames : sources \in [names -> DatasetSources]
    /\ remotes = EmptyMap
    /\ dvc_remotes = {}
    /\ build_targets = EmptyMap
    /\ last = NoLast

NextDataset ==
    \/ \E source \in SourceNames, bound \in BOOLEAN : FromCache(source, bound)
    \/ \E source \in SourceNames, bound \in BOOLEAN : FromSource(source, bound)
    \/ \E source \in SourceNames, save_dir \in {None, "dir"} :
          Save(source, save_dir)

SpecDataset == InitDataset /\ [][NextDataset]_vars

\* C34: a dataset marked read-only reports readonly = true, and saving it
\* without a save_dir fails with ReadonlyProjectError; a bound dataset that is
\* not marked reports readonly = false.
C34_MarkedDatasetIsReadonly ==
    last.op = "save" =>
        LET ds == dataset[last.name]
        IN  /\ ds._readonly =>
                /\ last.ret[2]
                /\ last.ret[1] = None => last.err = "ReadonlyProjectError"
            /\ (~ds._readonly /\ ds.is_bound) => ~last.ret[2]

-----------------------------------------------------------------------------
\* Termination of the executor

\* the loop of _init_pipeline keeps running while to_visit is not empty, and
\* the function returns when it is
SpecPipelineFair ==
    /\ SpecPipeline
    /\ WF_vars(InitPipelineStep /\ UNCHANGED treeVars)
    /\ WF_vars(InitPipelineDone /\ UNCHANGED treeVars)

\* every parentless node is cached or a generated source
RootsAvailable ==
    \A n \in pl.nodes :
        Predecessors(pl, n) = {} => (n \in cached \/ kind[n] = "gen")

\* C35: on an acyclic pipeline with a single head whose parentless nodes are
\* all cached or generated sources, the visit loop of the executor ends with
\* an empty to_visit stack and the head node then holds a dataset.
C35_VisitLoopTerminates ==
    (pc = "exec" /\ Cardinality(Sinks(pl)) = 1 /\ RootsAvailable)
        ~> (pc = "done" /\ to_visit = <<>> /\ dataset[head] # "none")

-----------------------------------------------------------------------------
\* The remotes registry and the backend

\* C36: after a successful remotes.remove(name) the name is not contained in
\* the remotes registry.
C36_RemovedRemoteIsAbsent ==
    (last.op = "remotes.remove" /\ last.err = "") =>
        last.name \notin DOMAIN remotes

\* C39: when the backend call add_remote fails inside remotes.add(name, value)
\* the remotes registry of the config is left as it was.
C39_FailedAddLeavesRegistry ==
    [][ (last'.op = "remotes.add" /\ last'.err = "DvcError") =>
            remotes' = remotes ]_vars

-----------------------------------------------------------------------------
\* Removing a stage

\* the chain without the stages called name, the others in their order
WithoutStage(stages, name) ==
    LET keep(stage) == stage.name # name
    IN  SelectSeq(stages, keep)

\* C37: remove_stage(target, name) on an existing target removes exactly the
\* stage called name when it is a stage of the chain other than the root and
\* keeps the other stages in their order; for a name that is not in the chain
\* it raises KeyError and leaves the chain as it was.
C37_RemoveStageRemovesExactlyOne ==
    [][ ( /\ last'.op = "remove_stage"
          /\ last'.ret[1] # BASE_STAGE
          /\ last'.name \in DOMAIN BuildTargetsData(build_targets, sources) ) =>
            LET before == BuildTargetsData(build_targets, sources)[last'.name].stages
                after == build_targets'[last'.name].stages
                name == last'.ret[1]
            IN  IF name \in StageNamesOf(before)
                THEN last'.err = "" /\ after = WithoutStage(before, name)
                ELSE last'.err = "KeyError" /\ after = before
      ]_vars

-----------------------------------------------------------------------------
\* Project.add and unknown names

\* C38: add(sources) with a name in the list that is not a source of the
\* working tree fails with UnknownSourceError, and neither the index object
\* store nor the config of the index tree is modified.
C38_AddWithUnknownNameChangesNothing ==
    [][ ( /\ last'.op = "add"
          /\ \E i \in DOMAIN last'.ret[1] :
                last'.ret[1][i] \notin DOMAIN project.working ) =>
            /\ last'.err = "UnknownSourceError"
            /\ project'.index = project.index
            /\ project'.index_cache = project.index_cache ]_vars

====
